---- MODULE Spec2Model ----
\* dependency_sort.py: build the dependency graph of the shared libraries of a
\* directory (symlinks and readelf NEEDED entries) and sort it topologically
\* with Kahn's algorithm.
EXTENDS Integers, Sequences, FiniteSets, TLC

VARIABLES
    directory,          \* the scanned directory: name -> entry (absent, file, symlink)
    readelf,            \* what `readelf -d` does on each regular file of the directory
    pc,                 \* position of main(): "build", "sort", "loop", "done"
    run,                \* which invocation of main() this is (1 or 2)
    first,              \* what the first invocation ended with (set by the second)
    dependency_graph,   \* the insertion-ordered mapping node -> list of dependencies
    diagnostics,        \* libraries for which "Error reading dependencies" was printed
    in_degree,          \* topological_sort's in_degree dict
    queue,              \* topological_sort's deque
    sorted_libraries,   \* topological_sort's output list
    outcome             \* "running", "returned" or the name of the exception raised

vars == <<directory, readelf, pc, run, first, dependency_graph, diagnostics,
          in_degree, queue, sorted_libraries, outcome>>

\* ------------------------------------------------------------------ bounds
\* Most lines of readelf output over all the files of one directory.
MaxLines == 3
\* Most edges (list entries) of a graph handed directly to topological_sort.
MaxEdges == 5

\* ------------------------------------------------------------- file names
\* File names are sequences of characters.
LibA == <<"a", ".", "s", "o">>
LibB == <<"b", ".", "s", "o", ".", "1">>
Lnk == <<"l", "n", "k">>
Names == {LibA, LibB, Lnk}

EndsWith(s, suffix) ==
    /\ Len(s) >= Len(suffix)
    /\ SubSeq(s, Len(s) - Len(suffix) + 1, Len(s)) = suffix

Contains(s, sub) ==
    \E i \in 1..(Len(s) - Len(sub) + 1) : SubSeq(s, i, i + Len(sub) - 1) = sub

is_shared_library(filename) ==
    \/ EndsWith(filename, <<".", "s", "o">>)
    \/ Contains(filename, <<".", "s", "o", ".">>)

\* ------------------------------------------------------------ sequences
Range(s) == {s[i] : i \in 1..Len(s)}

\* The sequences over S without repetition that list every element of S.
Perms(S) == {p \in [1..Cardinality(S) -> S] : Range(p) = S}

RECURSIVE Count(_, _)
Count(s, x) ==
    IF s = <<>> THEN 0
    ELSE (IF Head(s) = x THEN 1 ELSE 0) + Count(Tail(s), x)

RECURSIVE Sum(_)
Sum(s) == IF s = <<>> THEN 0 ELSE Head(s) + Sum(Tail(s))

\* -------------------------------------------------------- the directory
Absent == [kind |-> "absent", target |-> <<>>]
File == [kind |-> "file", target |-> <<>>]
Symlink(t) == [kind |-> "symlink", target |-> t]
Entries == {Absent, File} \cup {Symlink(t) : t \in Names}

Present(dir) == {n \in Names : dir[n].kind # "absent"}

\* ------------------------------------------------------------- the graph
\* An insertion-ordered dict is a sequence of items [node, deps].
Keys(g) == {g[i].node : i \in 1..Len(g)}
KeyList(g) == [i \in 1..Len(g) |-> g[i].node]
Get(g, n) == (CHOOSE i \in 1..Len(g) : g[i].node = n)
Deps(g, n) == g[Get(g, n)].deps
EmptyGraph == <<>>

\* Insertion into the defaultdict(list): dependency_graph[key] creates the key
\* with an empty list when it is missing, then the items are appended.
Insert(g, key, items) ==
    IF key \in Keys(g)
    THEN [g EXCEPT ![Get(g, key)].deps = @ \o items]
    ELSE Append(g, [node |-> key, deps |-> items])

\* --------------------------------------------------- resolve_symlinks
\* listing is the order in which os.listdir enumerates the directory.
resolve_symlinks(dir, listing) ==
    LET IsLink(n) == dir[n].kind = "symlink"
        links == SelectSeq(listing, IsLink)
    IN  [symlink_map |->
            [i \in 1..Len(links) |->
                [symlink |-> links[i], target |-> dir[links[i]].target]],
         shared_libraries |-> SelectSeq(listing, is_shared_library)]

\* ------------------------------------------------------------ readelf
\* The output of `readelf -d` is a list of dynamic-section lines; a failure is
\* the exception subprocess.check_output raises.
Statuses == {"ok", "CalledProcessError", "UnicodeDecodeError"}
Lines ==
    {[tag |-> "NEEDED", name |-> n] : n \in Names}
        \cup {[tag |-> "SONAME", name |-> LibA]}
NoSuchFile == [status |-> "CalledProcessError", lines |-> <<>>]

\* The regular file a path resolves to; <<>> for a dangling or looping symlink.
RECURSIVE Follow(_, _, _)
Follow(dir, n, hops) ==
    IF dir[n].kind = "file" THEN n
    ELSE IF dir[n].kind = "symlink" /\ hops > 0
         THEN Follow(dir, dir[n].target, hops - 1)
         ELSE <<>>

\* subprocess.check_output(["readelf", "-d", lib_path]): readelf opens the
\* path, which follows symlinks, and exits non-zero when it cannot open it.
check_output(dir, re, lib) ==
    LET f == Follow(dir, lib, Cardinality(Names))
    IN  IF f = <<>> THEN NoSuchFile ELSE re[f]

\* --------------------------------------------------- get_dependencies
\* Mutant: the `if dep in available_libraries` test is left out.
RECURSIVE NeededIn_Unfiltered(_, _)
NeededIn_Unfiltered(lines, available_libraries) ==
    IF lines = <<>> THEN <<>>
    ELSE LET line == Head(lines)
             rest == NeededIn_Unfiltered(Tail(lines), available_libraries)
         IN  IF line.tag = "NEEDED" THEN <<line.name>> \o rest ELSE rest

RECURSIVE NeededIn(_, _)
NeededIn(lines, available_libraries) ==
    IF lines = <<>> THEN <<>>
    ELSE LET line == Head(lines)
             rest == NeededIn(Tail(lines), available_libraries)
         IN  IF line.tag = "NEEDED" /\ line.name \in available_libraries
             THEN <<line.name>> \o rest
             ELSE rest

\* raised is "none" when get_dependencies returns, else the exception that
\* leaves it; diagnostic tells whether the except branch printed.
get_dependencies(output, available_libraries) ==
    IF output.status = "ok"
    THEN [raised |-> "none", diagnostic |-> FALSE,
          deps |-> NeededIn(output.lines, available_libraries)]
    ELSE IF output.status = "CalledProcessError"
    THEN [raised |-> "none", diagnostic |-> TRUE, deps |-> <<>>]
    ELSE [raised |-> output.status, diagnostic |-> FALSE, deps |-> <<>>]

\* --------------------------------------------- build_dependency_graph
RECURSIVE AddSymlinks(_, _, _)
AddSymlinks(g, symlink_map, available_libraries) ==
    IF symlink_map = <<>> THEN g
    ELSE LET s == Head(symlink_map)
         IN  AddSymlinks(
                 IF s.target \in available_libraries
                 THEN Insert(g, s.symlink, <<s.target>>)
                 ELSE g,
                 Tail(symlink_map), available_libraries)

RECURSIVE AddReadelf(_, _, _, _, _)
AddReadelf(b, libs, dir, re, available_libraries) ==
    IF libs = <<>> THEN b
    ELSE LET lib == Head(libs)
             r == get_dependencies(check_output(dir, re, lib),
                                   available_libraries)
             diag == IF r.diagnostic THEN Append(b.diagnostics, lib)
                     ELSE b.diagnostics
         IN  IF r.raised # "none"
             THEN [b EXCEPT !.raised = r.raised]
             ELSE AddReadelf(
                      [raised |-> "none", diagnostics |-> diag,
                       graph |-> Insert(b.graph, lib, r.deps)],
                      Tail(libs), dir, re, available_libraries)

build_dependency_graph(dir, re, listing) ==
    LET rs == resolve_symlinks(dir, listing)
        available_libraries == Range(rs.shared_libraries)
        g == AddSymlinks(EmptyGraph, rs.symlink_map, available_libraries)
    IN  AddReadelf([raised |-> "none", diagnostics |-> <<>>, graph |-> g],
                   rs.shared_libraries, dir, re, available_libraries)

\* ---------------------------------------------------- topological_sort
RECURSIVE Flatten(_)
Flatten(g) == IF g = <<>> THEN <<>> ELSE Head(g).deps \o Flatten(Tail(g))

\* Mutant: the increments are left out, every in-degree stays 0.
count_in_degree_NoIncrement(g) ==
    [raised |-> "none", in_degree |-> [n \in Keys(g) |-> 0]]

\* Mutant: an edge listed several times in one list is counted once.
count_in_degree_Distinct(g) ==
    IF Range(Flatten(g)) \subseteq Keys(g)
    THEN [raised |-> "none",
          in_degree |->
              [n \in Keys(g) |->
                  Cardinality({i \in 1..Len(g) : n \in Range(g[i].deps)})]]
    ELSE [raised |-> "KeyError", in_degree |-> <<>>]

\* in_degree = {node: 0 ...}; in_degree[dep] += 1 for every list entry. The
\* dict is a plain dict: a dep that is no key raises KeyError.
count_in_degree(g) ==
    LET targets == Flatten(g)
    IN  IF Range(targets) \subseteq Keys(g)
        THEN [raised |-> "none",
              in_degree |-> [n \in Keys(g) |-> Count(targets, n)]]
        ELSE [raised |-> "KeyError", in_degree |-> <<>>]

\* deque([node for node, degree in in_degree.items() if degree == 0])
seed_queue(g, deg) ==
    LET IsZero(n) == deg[n] = 0
    IN  SelectSeq(KeyList(g), IsZero)

\* Mutant: the zero test is made before the decrement.
RECURSIVE Relax_TestBeforeDecrement(_, _)
Relax_TestBeforeDecrement(st, deps) ==
    IF deps = <<>> THEN st
    ELSE LET dep == Head(deps)
         IN  Relax_TestBeforeDecrement(
                 [in_degree |-> [st.in_degree EXCEPT ![dep] = @ - 1],
                  queue |-> IF st.in_degree[dep] = 0
                            THEN Append(st.queue, dep)
                            ELSE st.queue,
                  sorted_libraries |-> st.sorted_libraries],
                 Tail(deps))

\* Mutant: the loop runs over set(dependency_graph[lib]), so a dependency
\* listed several times is decremented once.
RECURSIVE Relax_OncePerTarget(_, _)
Relax_OncePerTarget(st, deps) ==
    IF deps = <<>> THEN st
    ELSE LET dep == Head(deps)
             d == st.in_degree[dep] - 1
             Other(x) == x # dep
         IN  Relax_OncePerTarget(
                 [in_degree |-> [st.in_degree EXCEPT ![dep] = d],
                  queue |-> IF d = 0 THEN Append(st.queue, dep)
                            ELSE st.queue,
                  sorted_libraries |-> st.sorted_libraries],
                 SelectSeq(Tail(deps), Other))

\* for dep in dependency_graph[lib]: decrement, enqueue on reaching zero.
RECURSIVE Relax(_, _)
Relax(st, deps) ==
    IF deps = <<>> THEN st
    ELSE LET dep == Head(deps)
             d == st.in_degree[dep] - 1
         IN  Relax([in_degree |-> [st.in_degree EXCEPT ![dep] = d],
                    queue |-> IF d = 0 THEN Append(st.queue, dep)
                              ELSE st.queue,
                    sorted_libraries |-> st.sorted_libraries],
                   Tail(deps))

\* One iteration of `while queue:`.
loop_iteration(g, st) ==
    LET lib == Head(st.queue)
    IN  Relax([in_degree |-> st.in_degree,
               queue |-> Tail(st.queue),
               sorted_libraries |-> Append(st.sorted_libraries, lib)],
              Deps(g, lib))

\* Mutant: the length test is `>` where the code has `!=`.
finish_GreaterThan(g, sorted) ==
    IF Len(sorted) > Len(g) THEN "ValueError" ELSE "returned"

\* if len(sorted_libraries) != len(dependency_graph): raise ValueError
finish(g, sorted) ==
    IF Len(sorted) # Len(g) THEN "ValueError" ELSE "returned"

\* The whole of topological_sort, as a function of the graph.
RECURSIVE RunLoop(_, _)
RunLoop(g, st) ==
    IF st.queue = <<>> THEN st ELSE RunLoop(g, loop_iteration(g, st))

topological_sort(g) ==
    LET c == count_in_degree(g)
    IN  IF c.raised # "none"
        THEN [outcome |-> c.raised, sorted_libraries |-> <<>>]
        ELSE LET st == RunLoop(g, [in_degree |-> c.in_degree,
                                   queue |-> seed_queue(g, c.in_degree),
                                   sorted_libraries |-> <<>>])
             IN  [outcome |-> finish(g, st.sorted_libraries),
                  sorted_libraries |-> st.sorted_libraries]

\* ------------------------------------------------------ initial states
\* The pieces of flat, of the lengths lens, in order.
Split(flat, lens) ==
    [i \in 1..Len(lens) |->
        LET off == Sum(SubSeq(lens, 1, i - 1))
        IN  SubSeq(flat, off + 1, off + lens[i])]

NameOrder == <<LibA, LibB, Lnk>>
IndexOf(n) == CHOOSE i \in 1..Len(NameOrder) : NameOrder[i] = n
NoRun == [outcome |-> "none", sorted_libraries |-> <<>>]

InitSorter ==
    /\ in_degree = <<>>
    /\ queue = <<>>
    /\ sorted_libraries = <<>>
    /\ diagnostics = <<>>
    /\ outcome = "running"
    /\ run = 1
    /\ first = NoRun

\* main() is about to run on some directory; each regular file has some
\* readelf behaviour, with at most MaxLines lines of output in all.
Init ==
    /\ directory \in [Names -> Entries]
    /\ \E status \in [1..Len(NameOrder) -> Statuses],
          lens \in [1..Len(NameOrder) -> 0..MaxLines] :
        /\ Sum(lens) <= MaxLines
        /\ \A i \in 1..Len(NameOrder) :
            /\ status[i] # "ok" => lens[i] = 0
            /\ directory[NameOrder[i]].kind # "file"
                   => status[i] = "CalledProcessError"
        /\ \E flat \in [1..Sum(lens) -> Lines] :
            readelf = [n \in Names |->
                          [status |-> status[IndexOf(n)],
                           lines |-> Split(flat, lens)[IndexOf(n)]]]
    /\ pc = "build"
    /\ dependency_graph = EmptyGraph
    /\ InitSorter

\* topological_sort is about to run on some mapping node -> list of nodes
\* with at most MaxEdges list entries in all.
InitSort ==
    /\ directory = [n \in Names |-> Absent]
    /\ readelf = [n \in Names |-> NoSuchFile]
    /\ \E S \in SUBSET Names :
        \E ks \in Perms(S) :
            \E lens \in [1..Len(ks) -> 0..MaxEdges] :
                /\ Sum(lens) <= MaxEdges
                /\ \E flat \in [1..Sum(lens) -> Names] :
                    dependency_graph =
                        [i \in 1..Len(ks) |->
                            [node |-> ks[i], deps |-> Split(flat, lens)[i]]]
    /\ pc = "sort"
    /\ InitSorter

\* ------------------------------------------------------------- actions
\* main(), line 119: build_dependency_graph(directory), with os.listdir
\* enumerating the entries in some order.
BuildDependencyGraph ==
    /\ pc = "build"
    /\ \E listing \in Perms(Present(directory)) :
        LET b == build_dependency_graph(directory, readelf, listing)
        IN  /\ diagnostics' = b.diagnostics
            /\ IF b.raised = "none"
               THEN /\ dependency_graph' = b.graph
                    /\ pc' = "sort"
                    /\ outcome' = "running"
               ELSE /\ dependency_graph' = EmptyGraph
                    /\ pc' = "done"
                    /\ outcome' = b.raised
    /\ UNCHANGED <<directory, readelf, run, first, in_degree, queue,
                   sorted_libraries>>

\* topological_sort, lines 78-85.
TopologicalSortBegin ==
    /\ pc = "sort"
    /\ LET c == count_in_degree(dependency_graph)
       IN  IF c.raised = "none"
           THEN /\ in_degree' = c.in_degree
                /\ queue' = seed_queue(dependency_graph, c.in_degree)
                /\ pc' = "loop"
                /\ outcome' = "running"
           ELSE /\ in_degree' = <<>>
                /\ queue' = <<>>
                /\ pc' = "done"
                /\ outcome' = c.raised
    /\ sorted_libraries' = <<>>
    /\ UNCHANGED <<directory, readelf, run, first, dependency_graph,
                   diagnostics>>

\* topological_sort, lines 87-93: one iteration of the while loop.
TopologicalSortLoop ==
    /\ pc = "loop"
    /\ queue # <<>>
    /\ LET st == loop_iteration(dependency_graph,
                     [in_degree |-> in_degree, queue |-> queue,
                      sorted_libraries |-> sorted_libraries])
       IN  /\ in_degree' = st.in_degree
           /\ queue' = st.queue
           /\ sorted_libraries' = st.sorted_libraries
    /\ UNCHANGED <<directory, readelf, pc, run, first, dependency_graph,
                   diagnostics, outcome>>

\* topological_sort, lines 95-98: the loop has ended.
TopologicalSortEnd ==
    /\ pc = "loop"
    /\ queue = <<>>
    /\ outcome' = finish(dependency_graph, sorted_libraries)
    /\ pc' = "done"
    /\ UNCHANGED <<directory, readelf, run, first, dependency_graph,
                   diagnostics, in_degree, queue, sorted_libraries>>

\* The program is run a second time on the unchanged directory.
Rerun ==
    /\ pc = "done"
    /\ run = 1
    /\ run' = 2
    /\ first' = [outcome |-> outcome, sorted_libraries |-> sorted_libraries]
    /\ pc' = "build"
    /\ dependency_graph' = EmptyGraph
    /\ diagnostics' = <<>>
    /\ in_degree' = <<>>
    /\ queue' = <<>>
    /\ sorted_libraries' = <<>>
    /\ outcome' = "running"
    /\ UNCHANGED <<directory, readelf>>

\* One run of main() on a directory.
Next ==
    \/ BuildDependencyGraph
    \/ TopologicalSortBegin
    \/ TopologicalSortLoop
    \/ TopologicalSortEnd

Spec == Init /\ [][Next]_vars

\* topological_sort called on an arbitrary mapping.
NextSort ==
    \/ TopologicalSortBegin
    \/ TopologicalSortLoop
    \/ TopologicalSortEnd

SpecSort == InitSort /\ [][NextSort]_vars

\* Two runs of main() on the same directory.
NextTwice ==
    \/ Next
    \/ Rerun

SpecTwice == Init /\ [][NextTwice]_vars

\* =============================================================== claims
\* Graph notions the claims speak of, defined on the edge set alone.
Edges(g) ==
    UNION {{<<g[i].node, d>> : d \in Range(g[i].deps)} : i \in 1..Len(g)}

Targets(g) == {e[2] : e \in Edges(g)}

Successors(E, S) == {e[2] : e \in {x \in E : x[1] \in S}}

RECURSIVE ReachFrom(_, _, _)
ReachFrom(E, S, k) ==
    IF k = 0 THEN S ELSE ReachFrom(E, S \cup Successors(E, S), k - 1)

\* n lies on a cycle of the edge set E (a self-edge is a cycle).
OnCycle(E, n) ==
    n \in ReachFrom(E, Successors(E, {n}), Cardinality(Names))

HasCycle(g) == \E n \in Keys(g) \cup Targets(g) : OnCycle(Edges(g), n)

HasDuplicateEdge(g) ==
    \E i \in 1..Len(g) : \E d \in Range(g[i].deps) : Count(g[i].deps, d) > 1

\* a occurs in s, b occurs in s, and every a comes before every b.
Before(s, a, b) ==
    /\ a \in Range(s)
    /\ b \in Range(s)
    /\ \A i, j \in 1..Len(s) : (s[i] = a /\ s[j] = b) => i < j

ExactlyOnce(s, S) == \A n \in S : Count(s, n) = 1

\* The names os.listdir yields that is_shared_library accepts.
Inventory == {n \in Present(directory) : is_shared_library(n)}

\* build_dependency_graph has returned a graph in this run.
GraphBuilt == pc # "build" /\ outcome \notin Statuses

\* C1: for every acyclic graph built by build_dependency_graph,
\* topological_sort returns, and the order it returns has as many elements as
\* the graph has nodes and holds every node exactly once.
C1_AcyclicGivesCompleteOrder ==
    (pc = "done" /\ GraphBuilt /\ ~HasCycle(dependency_graph))
        => /\ outcome = "returned"
           /\ Len(sorted_libraries) = Len(dependency_graph)
           /\ Range(sorted_libraries) = Keys(dependency_graph)
           /\ ExactlyOnce(sorted_libraries, Keys(dependency_graph))

C1_Witness ==
    /\ pc = "done"
    /\ outcome = "returned"
    /\ Len(dependency_graph) = 3
    /\ Cardinality(Edges(dependency_graph)) >= 2
    /\ Len(sorted_libraries) = 3

\* C2: for every built graph that contains a cycle, a self-edge included,
\* topological_sort raises the cycle error and returns no order.
C2_CycleRaises ==
    (pc = "done" /\ GraphBuilt /\ HasCycle(dependency_graph))
        => outcome = "ValueError"

C2_Witness ==
    /\ pc = "done"
    /\ outcome = "ValueError"
    /\ directory[LibA] = Symlink(LibA)
    /\ <<LibA, LibA>> \in Edges(dependency_graph)
    /\ Len(dependency_graph) >= 2
    /\ sorted_libraries # <<>>

C4_NoDanglingEdges ==
    GraphBuilt => Targets(dependency_graph) \subseteq Keys(dependency_graph)

C4_Witness ==
    /\ GraphBuilt
    /\ Edges(dependency_graph) # {}
    /\ \E n \in Present(directory) :
        /\ directory[n].kind = "symlink"
        /\ directory[n].target \notin Inventory
    /\ \E n \in Inventory :
        LET out == check_output(directory, readelf, n)
        IN  \E i \in 1..Len(out.lines) :
                /\ out.lines[i].tag = "NEEDED"
                /\ out.lines[i].name \notin Inventory

\* C5: the node set of the built graph is exactly the set of directory
\* entries classified as shared libraries; a name that is no shared library
\* is never a node or an edge source.
C5_NodesAreTheInventory ==
    GraphBuilt => Keys(dependency_graph) = Inventory

\* C6: two runs over an unchanged directory with unchanged readelf results
\* give the same order, whatever order os.listdir enumerates the entries in.
C6_SameOrderOnRerun ==
    (run = 2 /\ pc = "done" /\ outcome = "returned")
        => /\ first.outcome = "returned"
           /\ sorted_libraries = first.sorted_libraries

\* The edge a library gets from resolve_symlinks, as a list.
SymlinkDeps(n) ==
    IF directory[n].kind = "symlink" /\ directory[n].target \in Inventory
    THEN <<directory[n].target>>
    ELSE <<>>

\* The inventoried libraries readelf cannot process.
Unreadable ==
    {n \in Inventory : check_output(directory, readelf, n).status # "ok"}

\* C7: when readelf fails on a library, in whatever way, the build goes on:
\* the library is a node without readelf-derived edges, and every other
\* library has the edges its own readelf output gives it.
C7_ExtractorFailureTolerated ==
    (pc # "build" /\ Unreadable # {})
        => /\ GraphBuilt
           /\ \A n \in Unreadable :
               /\ n \in Keys(dependency_graph)
               /\ Deps(dependency_graph, n) = SymlinkDeps(n)
           /\ \A n \in Inventory \ Unreadable :
               /\ n \in Keys(dependency_graph)
               /\ Deps(dependency_graph, n) =
                      SymlinkDeps(n) \o
                          NeededIn(check_output(directory, readelf, n).lines,
                                   Inventory)

\* C8: topological_sort treats a node that occurs only as an edge target,
\* without a key of its own, as a node: it does not fail on it, and for an
\* acyclic graph the order holds it once, after every node pointing to it.
C8_TargetOnlyNodesSorted ==
    (pc = "done" /\ ~(Targets(dependency_graph) \subseteq Keys(dependency_graph)))
        => /\ outcome # "KeyError"
           /\ ~HasCycle(dependency_graph)
               => /\ outcome = "returned"
                  /\ \A e \in Edges(dependency_graph) :
                      e[2] \notin Keys(dependency_graph)
                          => /\ Count(sorted_libraries, e[2]) = 1
                             /\ Before(sorted_libraries, e[1], e[2])

\* C9: during the loop a node has in-degree zero exactly when it has been
\* queued or emitted; when the loop ends with fewer emitted nodes than nodes,
\* the unemitted nodes are those whose in-degree is still positive, each has
\* an incoming edge from an unemitted node, the subgraph they induce has a
\* cycle, and no emitted node lies on a cycle.
C9_UnemittedContainCycle ==
    LET g == dependency_graph
        emitted == Range(sorted_libraries)
        U == Keys(g) \ emitted
        EU == {e \in Edges(g) : e[1] \in U /\ e[2] \in U}
    IN  /\ pc = "loop"
            => \A n \in Keys(g) :
                   in_degree[n] = 0 <=> n \in emitted \cup Range(queue)
        /\ (pc = "loop" /\ queue = <<>> /\ Len(sorted_libraries) < Len(g))
            => /\ U = {n \in Keys(g) : in_degree[n] > 0}
               /\ \A n \in U : \E m \in U : <<m, n>> \in Edges(g)
               /\ \E n \in U : OnCycle(EU, n)
               /\ \A n \in emitted : ~OnCycle(Edges(g), n)

C9_Witness ==
    /\ pc = "loop"
    /\ queue = <<>>
    /\ Len(sorted_libraries) = 1
    /\ Len(dependency_graph) = 3
    /\ \E n \in Keys(dependency_graph) :
        /\ in_degree[n] > 0
        /\ <<sorted_libraries[1], n>> \in Edges(dependency_graph)

RECURSIVE DedupSeq(_)
DedupSeq(s) ==
    IF s = <<>> THEN <<>>
    ELSE LET Other(x) == x # Head(s)
         IN  <<Head(s)>> \o DedupSeq(SelectSeq(Tail(s), Other))

\* The graph with every edge kept once.
Dedup(g) == [i \in 1..Len(g) |-> [node |-> g[i].node, deps |-> DedupSeq(g[i].deps)]]

====
